---- MODULE Spec2Model ----
(***************************************************************************)
(* Accessible Image Captioner: the Tk application object                  *)
(* (AccessibleImageCaptionerApp, src/main.py), its worker threads and the *)
(* Tk event queue that carries root.after(0, ...) callbacks back to the   *)
(* UI thread, together with the caption service it calls                  *)
(* (ImageCaptioner, src/utils/captioner.py).                              *)
(*                                                                         *)
(* A handler that runs on the UI thread is one action (Tk runs a handler *)
(* to completion before it takes the next event), except where it waits  *)
(* in a modal dialog after it has read the application object: the       *)
(* dialog runs Tk's event loop, so posted callbacks are run while it is   *)
(* open.  export_caption is the handler that does so (it tests the       *)
(* caption, waits in the save dialog, then writes) and it is two         *)
(* actions; select_image opens its dialog before it reads anything, and  *)
(* every message box is the last statement of its handler.  read_aloud   *)
(* starts its worker before it writes the status, and the worker may run *)
(* in between: it is two actions too, with only worker steps between      *)
(* them.  A worker                                                         *)
(* thread is a small program counter: each of its statements that reads   *)
(* or writes the application object, or posts a callback, is a step that  *)
(* interleaves with the UI thread's handlers.  root.quit ends the event   *)
(* loop: no command or callback runs after it, the workers may.           *)
(***************************************************************************)
EXTENDS Naturals, Sequences, FiniteSets, Bags

(* ---------------------------------------------------------------- bounds *)

\* tasks that may be outstanding at once: worker threads alive plus
\* callbacks they have posted that the UI thread has not run yet
MaxTasks == 2

\* longest list of paths handed to batch_generate_captions
MaxLen == 2

(* ------------------------------------------------------------ the world *)

None == "None"
NORMAL == "normal"
DISABLED == "disabled"

\* files the user can pick in the dialog or drop on the window
Files == {"a.jpg", "b.jpg", "bad.png"}

\* files PIL's Image.open can decode
Openable == {"a.jpg", "b.jpg"}

\* what is dropped on the window: a file name, with or without the braces
\* Tk puts around it; "gone.jpg" is a path that is not a file
DropData == { <<"a.jpg">>, <<"{", "b.jpg", "}">>, <<"{", "bad.png", "}">>, <<"gone.jpg">> }

\* str.strip('{}') on the dropped data
RECURSIVE lstrip(_)
lstrip(s) == IF s # << >> /\ Head(s) \in {"{", "}"} THEN lstrip(Tail(s)) ELSE s

RECURSIVE rstrip(_)
rstrip(s) == IF s # << >> /\ s[Len(s)] \in {"{", "}"}
             THEN rstrip(SubSeq(s, 1, Len(s) - 1)) ELSE s

RECURSIVE join(_)
join(s) == IF s = << >> THEN "" ELSE Head(s) \o join(Tail(s))

strip(s) == join(rstrip(lstrip(s)))

\* os.path.isfile
isfile(p) == p \in Files

\* Path(p).name and Path(p).stem of the file names above
name(p) == p
stem(p) == CASE p = "a.jpg" -> "a" [] p = "b.jpg" -> "b" [] p = "bad.png" -> "bad" [] OTHER -> p

(* ---------------------------------------------------- the caption service *)

\* the text the model decodes for an image it can process
decode(p) == "caption of " \o p

\* ImageCaptioner.generate_caption: every exception is turned into None;
\* otherwise the decoded text, stripped, which may be empty
ImageCaptioner_generate_caption(p) ==
    IF p \in Openable THEN {decode(p), "", None} ELSE {None}

Captions == {decode(p) : p \in Openable}

\* a message box: its title and the function that shows it
box(title, by) == title \o " @" \o by

\* no image: what generate_caption holds before Image.open has returned
NoImage == [path |-> None, mode |-> None, converted |-> FALSE]

(* ------------------------------------------------------------------ state *)

VARIABLES
    current_image_path,   \* self.current_image_path
    current_caption,      \* self.current_caption
    captioner,            \* self.captioner: None or the ImageCaptioner
    tts_engine,           \* self.tts_engine: None or the pyttsx3 engine
    high_contrast_mode,   \* self.high_contrast_mode
    generate_btn,         \* state of self.generate_btn
    read_btn,             \* state of self.read_btn
    export_btn,           \* state of self.export_btn
    progress,             \* TRUE while self.progress is started
    status_label,         \* text of self.status_label
    caption_text,         \* content of self.caption_text
    messagebox,           \* the box the last handler showed, or None
    load_thread,          \* position of the model-load worker
    generate_threads,     \* the caption workers alive: a bag of thread states
    speak_threads,        \* the speech workers alive: a bag of thread states
    after_queue,          \* callbacks posted with root.after(0, ...), FIFO
    exported,             \* what the last handler wrote to a file, or None
    dialog,               \* the modal dialog a handler is waiting in, or None
    handler,              \* the handler the UI thread stands in after starting
                          \* a thread and before its next statement, or None
    mainloop,             \* TRUE until root.quit() ends root.mainloop()
    pc,                   \* where a call of the caption service stands
    image_paths,          \* batch_generate_captions: its argument
    captions,             \* batch_generate_captions: the list it builds
    image,                \* generate_caption: the image it holds, or NoImage
    inputs,               \* generate_caption: the image the processor was given
    result                \* generate_caption: the value it returns

\* the application object, its threads and the event queue
app == << current_image_path, current_caption, captioner, tts_engine,
          high_contrast_mode, generate_btn, read_btn, export_btn, progress,
          status_label, caption_text, messagebox, load_thread,
          generate_threads, speak_threads, after_queue, exported, dialog, handler,
          mainloop >>

\* the frame of a call of the caption service
service == << pc, image_paths, captions, image, inputs, result >>

vars == << app, service >>

session == << current_image_path, current_caption >>
buttons == << generate_btn, read_btn, export_btn >>
widgets == << status_label, caption_text >>
threads == << load_thread, generate_threads, speak_threads >>

\* a thread's state: where it is in its body and the value it holds
thread(at, arg) == [pc |-> at, arg |-> arg]

\* threading.Thread(target=...).start()
start(ts) == ts (+) SetToBag({thread("started", None)})

\* thread t moves on to state u, or ends
step(ts, t, u) == (ts (-) SetToBag({t})) (+) SetToBag({u})
end(ts, t) == ts (-) SetToBag({t})

queued(cb) == {k \in 1 .. Len(after_queue) : after_queue[k].cb = cb}

\* self.root.after(0, cb) called from a worker thread: the callback joins the
\* queue; once mainloop has returned the call raises (the main thread is not
\* in the main loop) and nothing is queued
after(cb, arg) ==
    IF mainloop THEN Append(after_queue, [cb |-> cb, arg |-> arg]) ELSE after_queue

\* GenerateCaption tasks dispatched whose completion has not been applied
GenerateInFlight == BagCardinality(generate_threads) + Cardinality(queued("_on_caption_generated"))

\* Speak tasks whose worker has not finished
SpeakInFlight == BagCardinality(speak_threads)

\* worker threads alive and callbacks of theirs not yet run
Outstanding ==
    GenerateInFlight + SpeakInFlight + Cardinality(queued("lambda_tts_error"))

(* ------------------------------------------------------------------- init *)

\* __init__: the state after construction; _init_tts may have failed, in
\* pyttsx3.init() (no engine) or in setProperty (the engine is kept), with
\* its error box either way, and _load_model_async has started the load worker
Init ==
    /\ current_image_path = None
    /\ current_caption = None
    /\ captioner = None
    /\ tts_engine \in {"pyttsx3", None}
    /\ high_contrast_mode = FALSE
    /\ generate_btn = DISABLED
    /\ read_btn = DISABLED
    /\ export_btn = DISABLED
    /\ progress = FALSE
    /\ status_label = "Loading model, please wait..."
    /\ caption_text = ""
    /\ messagebox \in IF tts_engine = None THEN {box("TTS Error", "_init_tts")}
                                            ELSE {None, box("TTS Error", "_init_tts")}
    /\ load_thread = "started"
    /\ generate_threads = EmptyBag
    /\ speak_threads = EmptyBag
    /\ after_queue = << >>
    /\ exported = None
    /\ dialog = None
    /\ handler = None
    /\ mainloop = TRUE
    /\ pc = "idle"
    /\ image_paths = << >>
    /\ captions = << >>
    /\ image = NoImage
    /\ inputs = NoImage
    /\ result = None

(* -------------------------------------------------------- the load worker *)

\* load(): self.captioner = ImageCaptioner() returned
load_construct ==
    /\ load_thread = "started"
    /\ captioner' = "ImageCaptioner"
    /\ load_thread' = "constructed"
    /\ UNCHANGED << session, tts_engine, high_contrast_mode, buttons, progress,
                    widgets, messagebox, generate_threads, speak_threads,
                    after_queue, exported >>
    /\ UNCHANGED << dialog, mainloop, handler, service >>

\* load(): self.root.after(0, self._on_model_loaded)
load_after ==
    /\ load_thread = "constructed"
    /\ after_queue' = after("_on_model_loaded", None)
    /\ load_thread' = "done"
    /\ UNCHANGED << session, captioner, tts_engine, high_contrast_mode, buttons,
                    progress, widgets, messagebox, generate_threads,
                    speak_threads, exported >>
    /\ UNCHANGED << dialog, mainloop, handler, service >>

\* load(): ImageCaptioner() raised; the except clause posts a lambda that
\* refers to the exception variable e
load_except ==
    /\ load_thread = "started"
    /\ after_queue' = after("lambda_on_model_error", None)
    /\ load_thread' = "failed"
    /\ UNCHANGED << session, captioner, tts_engine, high_contrast_mode, buttons,
                    progress, widgets, messagebox, generate_threads,
                    speak_threads, exported >>
    /\ UNCHANGED << dialog, mainloop, handler, service >>

\* the next callback the UI thread will run: the head of the queue while
\* root.mainloop() (or a dialog's event loop inside it) is running and the
\* UI thread stands in no handler
next_cb ==
    IF ~mainloop \/ handler # None \/ after_queue = << >> THEN None
    ELSE Head(after_queue).cb

\* the user's commands (buttons, menu entries, key bindings, drops) reach the
\* handlers while root.mainloop() runs and no modal dialog holds the input
commands == mainloop /\ dialog = None /\ handler = None

_on_model_loaded ==
    /\ next_cb = "_on_model_loaded"
    /\ after_queue' = Tail(after_queue)
    /\ status_label' = "Model loaded successfully! Select an image to begin."
    /\ messagebox' = box("Ready", "_on_model_loaded")
    /\ exported' = None
    /\ UNCHANGED << session, captioner, tts_engine, high_contrast_mode, buttons,
                    progress, caption_text, threads >>
    /\ UNCHANGED << dialog, mainloop, handler, service >>

\* _on_model_error(error_msg)
_on_model_error ==
    /\ status_label' = "Failed to load model. Please restart the application."
    /\ messagebox' = box("Model Error", "_on_model_error")

\* lambda: self._on_model_error(str(e)).  The worker deletes e when it leaves
\* its except clause, and the UI thread may run the lambda before or after
\* that: with e still bound _on_model_error is called; with e deleted
\* str(e) raises NameError, which Tk reports on stderr
lambda_on_model_error ==
    /\ next_cb = "lambda_on_model_error"
    /\ after_queue' = Tail(after_queue)
    /\ \E bound \in BOOLEAN :
          IF bound THEN _on_model_error
                   ELSE /\ messagebox' = None
                        /\ UNCHANGED status_label
    /\ exported' = None
    /\ UNCHANGED << session, captioner, tts_engine, high_contrast_mode, buttons,
                    progress, caption_text, threads >>
    /\ UNCHANGED << dialog, mainloop, handler, service >>

(* ------------------------------------------------------- selecting images *)

\* _load_image without the line self.current_caption = None
_load_image_keeps_caption(image_path) ==
    /\ current_image_path' = image_path
    /\ IF image_path \in Openable
       THEN /\ generate_btn' = IF captioner # None THEN NORMAL ELSE generate_btn
            /\ status_label' = "Image loaded: " \o name(image_path)
            /\ caption_text' = ""
            /\ UNCHANGED current_caption
            /\ read_btn' = DISABLED
            /\ export_btn' = DISABLED
            /\ messagebox' = None
       ELSE /\ messagebox' = box("Error", "_load_image")
            /\ UNCHANGED << current_caption, buttons, widgets >>

\* _load_image enabling the generate button without testing self.captioner
_load_image_enables_always(image_path) ==
    /\ current_image_path' = image_path
    /\ IF image_path \in Openable
       THEN /\ generate_btn' = NORMAL
            /\ status_label' = "Image loaded: " \o name(image_path)
            /\ caption_text' = ""
            /\ current_caption' = None
            /\ read_btn' = DISABLED
            /\ export_btn' = DISABLED
            /\ messagebox' = None
       ELSE /\ messagebox' = box("Error", "_load_image")
            /\ UNCHANGED << current_caption, buttons, widgets >>

\* _load_image clearing the caption but leaving Read Aloud and Export enabled
_load_image_leaves_buttons(image_path) ==
    /\ current_image_path' = image_path
    /\ IF image_path \in Openable
       THEN /\ generate_btn' = IF captioner # None THEN NORMAL ELSE generate_btn
            /\ status_label' = "Image loaded: " \o name(image_path)
            /\ caption_text' = ""
            /\ current_caption' = None
            /\ UNCHANGED << read_btn, export_btn >>
            /\ messagebox' = None
       ELSE /\ messagebox' = box("Error", "_load_image")
            /\ UNCHANGED << current_caption, buttons, widgets >>

\* _load_image(image_path): the path is stored first; when PIL cannot open
\* the file the rest of the try block is skipped and an error box is shown
_load_image(image_path) ==
    /\ current_image_path' = image_path
    /\ IF image_path \in Openable
       THEN /\ generate_btn' = IF captioner # None THEN NORMAL ELSE generate_btn
            /\ status_label' = "Image loaded: " \o name(image_path)
            /\ caption_text' = ""
            /\ current_caption' = None
            /\ read_btn' = DISABLED
            /\ export_btn' = DISABLED
            /\ messagebox' = None
       ELSE /\ messagebox' = box("Error", "_load_image")
            /\ UNCHANGED << current_caption, buttons, widgets >>

\* select_image(): the file dialog returns a path, or "" when cancelled
select_image ==
    /\ commands
    /\ \E file_path \in Files \cup {""} :
          IF file_path # ""
          THEN _load_image(file_path)
          ELSE /\ messagebox' = None
               /\ UNCHANGED << session, buttons, widgets >>
    /\ exported' = None
    /\ UNCHANGED << captioner, tts_engine, high_contrast_mode, progress, threads,
                    after_queue >>
    /\ UNCHANGED << dialog, mainloop, handler, service >>

\* _on_drop(event)
_on_drop ==
    /\ commands
    /\ \E data \in DropData :
          LET file_path == strip(data) IN
          IF isfile(file_path)
          THEN _load_image(file_path)
          ELSE /\ messagebox' = None
               /\ UNCHANGED << session, buttons, widgets >>
    /\ exported' = None
    /\ UNCHANGED << captioner, tts_engine, high_contrast_mode, progress, threads,
                    after_queue >>
    /\ UNCHANGED << dialog, mainloop, handler, service >>

(* ------------------------------------------------------------- captioning *)

\* how a handler is invoked: by its button (which Tk ignores while the
\* button is disabled) or by its key binding / menu entry (always active)
Via == {"button", "key"}

\* Python truthiness of a caption value
truthy(c) == c # None /\ c # ""

\* generate_caption without the test of self.current_image_path
generate_caption_no_image_check ==
    /\ commands
    /\ \E via \in Via : via = "button" => generate_btn = NORMAL
    /\ IF captioner = None
       THEN /\ messagebox' = box("Model Not Ready", "generate_caption")
            /\ UNCHANGED << generate_btn, progress, status_label, generate_threads >>
       ELSE /\ Outstanding < MaxTasks
            /\ generate_btn' = DISABLED
            /\ progress' = TRUE
            /\ status_label' = "Generating caption..."
            /\ generate_threads' = start(generate_threads)
            /\ messagebox' = None
    /\ exported' = None
    /\ UNCHANGED << session, captioner, tts_engine, high_contrast_mode, read_btn,
                    export_btn, caption_text, load_thread, speak_threads,
                    after_queue >>
    /\ UNCHANGED << dialog, mainloop, handler, service >>

\* generate_caption without the test of self.captioner
generate_caption_no_model_check ==
    /\ commands
    /\ \E via \in Via : via = "button" => generate_btn = NORMAL
    /\ IF current_image_path = None
       THEN /\ messagebox' = box("No Image", "generate_caption")
            /\ UNCHANGED << generate_btn, progress, status_label, generate_threads >>
       ELSE /\ Outstanding < MaxTasks
            /\ generate_btn' = DISABLED
            /\ progress' = TRUE
            /\ status_label' = "Generating caption..."
            /\ generate_threads' = start(generate_threads)
            /\ messagebox' = None
    /\ exported' = None
    /\ UNCHANGED << session, captioner, tts_engine, high_contrast_mode, read_btn,
                    export_btn, caption_text, load_thread, speak_threads,
                    after_queue >>
    /\ UNCHANGED << dialog, mainloop, handler, service >>

\* generate_caption()
generate_caption ==
    /\ commands
    /\ \E via \in Via : via = "button" => generate_btn = NORMAL
    /\ IF current_image_path = None
       THEN /\ messagebox' = box("No Image", "generate_caption")
            /\ UNCHANGED << generate_btn, progress, status_label, generate_threads >>
       ELSE IF captioner = None
       THEN /\ messagebox' = box("Model Not Ready", "generate_caption")
            /\ UNCHANGED << generate_btn, progress, status_label, generate_threads >>
       ELSE /\ Outstanding < MaxTasks
            /\ generate_btn' = DISABLED
            /\ progress' = TRUE
            /\ status_label' = "Generating caption..."
            /\ generate_threads' = start(generate_threads)
            /\ messagebox' = None
    /\ exported' = None
    /\ UNCHANGED << session, captioner, tts_engine, high_contrast_mode, read_btn,
                    export_btn, caption_text, load_thread, speak_threads,
                    after_queue >>
    /\ UNCHANGED << dialog, mainloop, handler, service >>

\* generate(), the worker's body: self.current_image_path is evaluated when
\* the worker runs, as the argument of self.captioner.generate_caption, in
\* which the worker then stays while the UI thread goes on
generate_call(t) ==
    /\ t.pc = "started"
    /\ generate_threads' = step(generate_threads, t, thread("captioning", current_image_path))
    /\ UNCHANGED << session, captioner, tts_engine, high_contrast_mode, buttons,
                    progress, widgets, messagebox, load_thread, speak_threads,
                    after_queue, exported >>
    /\ UNCHANGED << dialog, mainloop, handler, service >>

\* generate(): the caption service has returned and the completion is
\* posted.  The service turns every exception into None, so the except
\* clause is entered only when root.after itself raises
generate_after(t) ==
    /\ t.pc = "captioning"
    /\ \E caption \in ImageCaptioner_generate_caption(t.arg) :
          after_queue' = after("_on_caption_generated", caption)
    /\ generate_threads' = end(generate_threads, t)
    /\ UNCHANGED << session, captioner, tts_engine, high_contrast_mode, buttons,
                    progress, widgets, messagebox, load_thread, speak_threads,
                    exported >>
    /\ UNCHANGED << dialog, mainloop, handler, service >>

\* read_aloud without the test of self.current_caption
read_aloud_body_no_caption_check(caption, status) ==
    IF tts_engine = None
    THEN /\ messagebox' = box("TTS Error", "read_aloud")
         /\ status_label' = status
         /\ UNCHANGED << speak_threads, handler >>
    ELSE /\ speak_threads' = start(speak_threads)
         /\ handler' = "read_aloud"
         /\ status_label' = status
         /\ messagebox' = None

\* read_aloud() up to thread.start(), as the body of a handler: the caption
\* it finds in self.current_caption, and the status text the handler has
\* set so far.  thread.start() lets the new worker run: the UI thread stands
\* in read_aloud, its status write still to come, while workers take steps
read_aloud_body(caption, status) ==
    IF ~truthy(caption)
    THEN /\ messagebox' = box("No Caption", "read_aloud")
         /\ status_label' = status
         /\ UNCHANGED << speak_threads, handler >>
    ELSE IF tts_engine = None
    THEN /\ messagebox' = box("TTS Error", "read_aloud")
         /\ status_label' = status
         /\ UNCHANGED << speak_threads, handler >>
    ELSE /\ speak_threads' = start(speak_threads)
         /\ handler' = "read_aloud"
         /\ status_label' = status
         /\ messagebox' = None

\* read_aloud() after thread.start() has returned: the status write, with
\* which the handler (read_aloud itself, or _on_caption_generated that
\* called it) returns
read_aloud_status_label ==
    /\ handler = "read_aloud"
    /\ handler' = None
    /\ status_label' = "Reading caption aloud..."
    /\ UNCHANGED << session, captioner, tts_engine, high_contrast_mode, buttons,
                    progress, caption_text, messagebox, threads, after_queue,
                    exported >>
    /\ UNCHANGED << dialog, mainloop, service >>

\* _on_caption_error without re-enabling the generate button
_on_caption_error_leaves_button ==
    /\ progress' = FALSE
    /\ UNCHANGED generate_btn
    /\ status_label' = "Caption generation failed"
    /\ messagebox' = box("Error", "_on_caption_error")

\* _on_caption_error(error_msg)
_on_caption_error ==
    /\ progress' = FALSE
    /\ generate_btn' = NORMAL
    /\ status_label' = "Caption generation failed"
    /\ messagebox' = box("Error", "_on_caption_error")

\* _on_caption_generated without the closing call of read_aloud()
_on_caption_generated_silent ==
    /\ next_cb = "_on_caption_generated"
    /\ after_queue' = Tail(after_queue)
    /\ LET caption == Head(after_queue).arg IN
       IF truthy(caption)
       THEN /\ progress' = FALSE
            /\ generate_btn' = NORMAL
            /\ current_caption' = caption
            /\ caption_text' = caption
            /\ read_btn' = NORMAL
            /\ export_btn' = NORMAL
            /\ status_label' = "Caption generated successfully!"
            /\ messagebox' = None
            /\ UNCHANGED speak_threads
       ELSE /\ _on_caption_error
            /\ UNCHANGED << current_caption, caption_text, read_btn, export_btn,
                            speak_threads >>
    /\ exported' = None
    /\ UNCHANGED << current_image_path, captioner, tts_engine, high_contrast_mode,
                    load_thread, generate_threads >>
    /\ UNCHANGED << dialog, mainloop, handler, service >>

\* _on_caption_generated without progress.stop() where a caption arrived
_on_caption_generated_keeps_progress ==
    /\ next_cb = "_on_caption_generated"
    /\ after_queue' = Tail(after_queue)
    /\ LET caption == Head(after_queue).arg IN
       IF truthy(caption)
       THEN /\ UNCHANGED progress
            /\ generate_btn' = NORMAL
            /\ current_caption' = caption
            /\ caption_text' = caption
            /\ read_btn' = NORMAL
            /\ export_btn' = NORMAL
            /\ read_aloud_body(caption, "Caption generated successfully!")
       ELSE /\ _on_caption_error
            /\ UNCHANGED << current_caption, caption_text, read_btn, export_btn,
                            speak_threads, handler >>
    /\ exported' = None
    /\ UNCHANGED << current_image_path, captioner, tts_engine, high_contrast_mode,
                    load_thread, generate_threads >>
    /\ UNCHANGED << dialog, mainloop, service >>

\* _on_caption_generated(caption), with the read_aloud() and
\* _on_caption_error() calls it ends in
_on_caption_generated ==
    /\ next_cb = "_on_caption_generated"
    /\ after_queue' = Tail(after_queue)
    /\ LET caption == Head(after_queue).arg IN
       IF truthy(caption)
       THEN /\ progress' = FALSE
            /\ generate_btn' = NORMAL
            /\ current_caption' = caption
            /\ caption_text' = caption
            /\ read_btn' = NORMAL
            /\ export_btn' = NORMAL
            /\ read_aloud_body(caption, "Caption generated successfully!")
       ELSE /\ _on_caption_error
            /\ UNCHANGED << current_caption, caption_text, read_btn, export_btn,
                            speak_threads, handler >>
    /\ exported' = None
    /\ UNCHANGED << current_image_path, captioner, tts_engine, high_contrast_mode,
                    load_thread, generate_threads >>
    /\ UNCHANGED << dialog, mainloop, service >>

(* ----------------------------------------------------------------- speech *)

\* read_aloud(), from its button or key binding (within the bound on
\* outstanding tasks; the call that ends _on_caption_generated takes the
\* place of the completion being applied)
read_aloud ==
    /\ commands
    /\ \E via \in Via : via = "button" => read_btn = NORMAL
    /\ (truthy(current_caption) /\ tts_engine # None) => Outstanding < MaxTasks
    /\ read_aloud_body(current_caption, status_label)
    /\ exported' = None
    /\ UNCHANGED << session, captioner, tts_engine, high_contrast_mode, buttons,
                    progress, caption_text, load_thread, generate_threads,
                    after_queue >>
    /\ UNCHANGED << dialog, mainloop, service >>

\* speak(): self.tts_engine.say(self.current_caption); the caption is read
\* when the worker runs
speak_say(t) ==
    /\ t.pc = "started"
    /\ speak_threads' = step(speak_threads, t, thread("saying", current_caption))
    /\ UNCHANGED << session, captioner, tts_engine, high_contrast_mode, buttons,
                    progress, widgets, messagebox, load_thread, generate_threads,
                    after_queue, exported >>
    /\ UNCHANGED << dialog, mainloop, handler, service >>

\* speak(): self.tts_engine.runAndWait() returned
speak_runAndWait(t) ==
    /\ t.pc = "saying"
    /\ speak_threads' = end(speak_threads, t)
    /\ UNCHANGED << session, captioner, tts_engine, high_contrast_mode, buttons,
                    progress, widgets, messagebox, load_thread, generate_threads,
                    after_queue, exported >>
    /\ UNCHANGED << dialog, mainloop, handler, service >>

\* speak(): the engine raised; the except clause posts a lambda that refers
\* to the exception variable e
speak_except(t) ==
    /\ t.pc = "saying"
    /\ speak_threads' = end(speak_threads, t)
    /\ after_queue' = after("lambda_tts_error", None)
    /\ UNCHANGED << session, captioner, tts_engine, high_contrast_mode, buttons,
                    progress, widgets, messagebox, load_thread, generate_threads,
                    exported >>
    /\ UNCHANGED << dialog, mainloop, handler, service >>

\* lambda: messagebox.showerror("TTS Error", f"...{str(e)}"), with the same
\* race on e: the box is shown when e is still bound, NameError otherwise
lambda_tts_error ==
    /\ next_cb = "lambda_tts_error"
    /\ after_queue' = Tail(after_queue)
    /\ \E bound \in BOOLEAN :
          messagebox' = IF bound THEN box("TTS Error", "lambda_tts_error") ELSE None
    /\ exported' = None
    /\ UNCHANGED << session, captioner, tts_engine, high_contrast_mode, buttons,
                    progress, widgets, threads >>
    /\ UNCHANGED << dialog, mainloop, handler, service >>

(* ------------------------------------------------------ export and contrast *)

\* export_caption(): the caption is tested, and with a caption the handler
\* waits in filedialog.asksaveasfilename, whose modal dialog runs Tk's event
\* loop: callbacks posted by the workers are run while it is open
export_caption ==
    /\ commands
    /\ \E via \in Via : via = "button" => export_btn = NORMAL
    /\ IF ~truthy(current_caption)
       THEN /\ messagebox' = box("No Caption", "export_caption")
            /\ UNCHANGED dialog
       ELSE /\ messagebox' = None
            /\ dialog' = "asksaveasfilename"
    /\ exported' = None
    /\ UNCHANGED << session, captioner, tts_engine, high_contrast_mode, buttons,
                    progress, widgets, threads, after_queue >>
    /\ UNCHANGED << mainloop, handler, service >>

\* the rest of export_caption writing a labelled line instead of the caption
asksaveasfilename_formats ==
    /\ dialog = "asksaveasfilename"
    /\ handler = None
    /\ dialog' = None
    /\ \E file_path \in {"", "out.txt"}, written \in BOOLEAN :
          IF file_path = ""
          THEN /\ messagebox' = None
               /\ exported' = None
               /\ UNCHANGED status_label
          ELSE IF written
          THEN /\ exported' = "Caption: " \o current_caption
               /\ status_label' = "Caption exported to " \o name(file_path)
               /\ messagebox' = box("Success", "export_caption")
          ELSE /\ messagebox' = box("Export Error", "export_caption")
               /\ exported' = None
               /\ UNCHANGED status_label
    /\ UNCHANGED << session, captioner, tts_engine, high_contrast_mode, buttons,
                    progress, caption_text, threads, after_queue >>
    /\ UNCHANGED << mainloop, handler, service >>

\* export_caption() after filedialog.asksaveasfilename has returned a path,
\* or "" when cancelled: self.current_caption is read again, as it is now,
\* and the write succeeds or raises
asksaveasfilename ==
    /\ dialog = "asksaveasfilename"
    /\ handler = None
    /\ dialog' = None
    /\ \E file_path \in {"", "out.txt"}, written \in BOOLEAN :
          IF file_path = ""
          THEN /\ messagebox' = None
               /\ exported' = None
               /\ UNCHANGED status_label
          ELSE IF written
          THEN /\ exported' = current_caption
               /\ status_label' = "Caption exported to " \o name(file_path)
               /\ messagebox' = box("Success", "export_caption")
          ELSE /\ messagebox' = box("Export Error", "export_caption")
               /\ exported' = None
               /\ UNCHANGED status_label
    /\ UNCHANGED << session, captioner, tts_engine, high_contrast_mode, buttons,
                    progress, caption_text, threads, after_queue >>
    /\ UNCHANGED << mainloop, handler, service >>

\* toggle_high_contrast re-enabling the buttons as it recolours them
toggle_high_contrast_enables_buttons ==
    /\ commands
    /\ high_contrast_mode' = ~high_contrast_mode
    /\ status_label' = IF high_contrast_mode' THEN "High contrast mode enabled"
                                              ELSE "Normal mode enabled"
    /\ messagebox' = None
    /\ exported' = None
    /\ generate_btn' = NORMAL
    /\ read_btn' = NORMAL
    /\ export_btn' = NORMAL
    /\ UNCHANGED << session, captioner, tts_engine, progress,
                    caption_text, threads, after_queue >>
    /\ UNCHANGED << dialog, mainloop, handler, service >>

\* toggle_high_contrast()
toggle_high_contrast ==
    /\ commands
    /\ high_contrast_mode' = ~high_contrast_mode
    /\ status_label' = IF high_contrast_mode' THEN "High contrast mode enabled"
                                              ELSE "Normal mode enabled"
    /\ messagebox' = None
    /\ exported' = None
    /\ UNCHANGED << session, captioner, tts_engine, buttons, progress,
                    caption_text, threads, after_queue >>
    /\ UNCHANGED << dialog, mainloop, handler, service >>

(* ---------------------------------------------------------- help and exit *)

\* _show_about()
_show_about ==
    /\ commands
    /\ messagebox' = box("About", "_show_about")
    /\ exported' = None
    /\ UNCHANGED << session, captioner, tts_engine, high_contrast_mode, buttons,
                    progress, widgets, threads, after_queue >>
    /\ UNCHANGED << dialog, mainloop, handler, service >>

\* _show_shortcuts()
_show_shortcuts ==
    /\ commands
    /\ messagebox' = box("Keyboard Shortcuts", "_show_shortcuts")
    /\ exported' = None
    /\ UNCHANGED << session, captioner, tts_engine, high_contrast_mode, buttons,
                    progress, widgets, threads, after_queue >>
    /\ UNCHANGED << dialog, mainloop, handler, service >>

\* self.root.quit, from File > Exit or Ctrl+Q: root.mainloop() returns.  The
\* callbacks still queued are never run; the daemon workers may go on until
\* the interpreter exits
quit ==
    /\ commands
    /\ mainloop' = FALSE
    /\ UNCHANGED << session, captioner, tts_engine, high_contrast_mode, buttons,
                    progress, widgets, messagebox, threads, after_queue, exported >>
    /\ UNCHANGED << dialog, handler, service >>

(* ------------------------------------------------------------------- next *)

Next ==
    \/ load_construct
    \/ load_after
    \/ load_except
    \/ _on_model_loaded
    \/ lambda_on_model_error
    \/ select_image
    \/ _on_drop
    \/ generate_caption
    \/ \E t \in BagToSet(generate_threads) : generate_call(t)
    \/ \E t \in BagToSet(generate_threads) : generate_after(t)
    \/ _on_caption_generated
    \/ read_aloud
    \/ read_aloud_status_label
    \/ \E t \in BagToSet(speak_threads) : speak_say(t)
    \/ \E t \in BagToSet(speak_threads) : speak_runAndWait(t)
    \/ \E t \in BagToSet(speak_threads) : speak_except(t)
    \/ lambda_tts_error
    \/ export_caption
    \/ asksaveasfilename
    \/ toggle_high_contrast
    \/ _show_about
    \/ _show_shortcuts
    \/ quit

Spec == Init /\ [][Next]_vars

\* the positions a caption worker can be at
GenerateThreads ==
    {thread("started", None)} \cup {thread("captioning", p) : p \in Files}

\* the event loop running the callback at the head of the queue
callback ==
    \/ _on_model_loaded
    \/ lambda_on_model_error
    \/ _on_caption_generated
    \/ lambda_tts_error

\* The caption workers are scheduled and Tk's event loop runs every callback
\* posted to it: each caption worker that can take its step takes it, a
\* handler goes on after thread.start(), and the callback at the head of the
\* queue is run.  The event loop takes a posted callback between two
\* handlers however often handlers are run (a callback cannot run while the
\* UI thread stands in a handler), hence strong fairness for the callbacks.
FairSpec ==
    /\ Spec
    /\ \A t \in GenerateThreads :
          WF_vars(t \in BagToSet(generate_threads)
                    /\ (generate_call(t) \/ generate_after(t)))
    /\ WF_vars(read_aloud_status_label)
    /\ SF_vars(callback)

(* ------------------------------------- the caption service, statement by statement *)

\* paths handed to the service: the files above and a path that does not exist
Paths == Files \cup {"gone.jpg"}

\* image.mode of the files PIL can open: a.jpg is a colour image, b.jpg a
\* grayscale one
mode(p) == IF p = "a.jpg" THEN "RGB" ELSE "L"

\* what processor.decode may return for an image, as pieces of text: the
\* caption, the caption with white space around it, white space only, nothing
decoded(p) == { << decode(p) >>, << " ", decode(p), " " >>, << " " >>, << >> }

\* str.strip() of the decoded text
RECURSIVE str_lstrip(_)
str_lstrip(s) == IF s # << >> /\ Head(s) = " " THEN str_lstrip(Tail(s)) ELSE s

RECURSIVE str_rstrip(_)
str_rstrip(s) == IF s # << >> /\ s[Len(s)] = " "
                 THEN str_rstrip(SubSeq(s, 1, Len(s) - 1)) ELSE s

str_strip(s) == join(str_rstrip(str_lstrip(s)))

\* the path the call in progress was given
img_path == image_paths[Len(captions) + 1]

\* an exception inside generate_caption's try block leaving the function
raise_escapes == pc' = "raised"

\* an exception inside generate_caption's try block: except Exception takes it
raise_in_try == pc' = "except"

\* batch_generate_captions: for img_path in image_paths, the next call of
\* generate_caption; return captions when the list is exhausted
batch_for ==
    /\ pc = "for"
    /\ pc' = IF Len(captions) < Len(image_paths) THEN "open" ELSE "returned"
    /\ image' = NoImage
    /\ inputs' = NoImage
    /\ result' = None
    /\ UNCHANGED << image_paths, captions >>
    /\ UNCHANGED app

\* generate_caption: image = Image.open(image_path)
Image_open ==
    /\ pc = "open"
    /\ IF img_path \in Openable
       THEN /\ image' = [path |-> img_path, mode |-> mode(img_path), converted |-> FALSE]
            /\ pc' = "convert"
       ELSE /\ raise_in_try
            /\ UNCHANGED image
    /\ UNCHANGED << image_paths, captions, inputs, result >>
    /\ UNCHANGED app

\* generate_caption without the conversion
image_convert_never ==
    /\ pc = "convert"
    /\ \E ok \in BOOLEAN :
          IF image.mode # "RGB"
          THEN IF ok THEN pc' = "processor" /\ UNCHANGED image
                     ELSE raise_in_try /\ UNCHANGED image
          ELSE pc' = "processor" /\ UNCHANGED image
    /\ UNCHANGED << image_paths, captions, inputs, result >>
    /\ UNCHANGED app

\* generate_caption: if image.mode != "RGB": image = image.convert("RGB");
\* the conversion reads the file's data and may raise
image_convert ==
    /\ pc = "convert"
    /\ \E ok \in BOOLEAN :
          IF image.mode # "RGB"
          THEN IF ok THEN /\ image' = [image EXCEPT !.mode = "RGB", !.converted = TRUE]
                          /\ pc' = "processor"
                     ELSE raise_in_try /\ UNCHANGED image
          ELSE pc' = "processor" /\ UNCHANGED image
    /\ UNCHANGED << image_paths, captions, inputs, result >>
    /\ UNCHANGED app

\* generate_caption: inputs = self.processor(image, ...).to(self.device)
processor ==
    /\ pc = "processor"
    /\ inputs' = image
    /\ \E ok \in BOOLEAN : IF ok THEN pc' = "generate" ELSE raise_in_try
    /\ UNCHANGED << image_paths, captions, image, result >>
    /\ UNCHANGED app

\* generate_caption: output_ids = self.model.generate(**inputs, ...)
model_generate ==
    /\ pc = "generate"
    /\ \E ok \in BOOLEAN : IF ok THEN pc' = "decode" ELSE raise_in_try
    /\ UNCHANGED << image_paths, captions, image, inputs, result >>
    /\ UNCHANGED app

\* generate_caption: caption = self.processor.decode(...); return caption.strip()
processor_decode ==
    /\ pc = "decode"
    /\ \E ok \in BOOLEAN, caption \in decoded(image.path) :
          IF ok THEN result' = str_strip(caption) /\ pc' = "return"
                ELSE raise_in_try /\ UNCHANGED result
    /\ UNCHANGED << image_paths, captions, image, inputs >>
    /\ UNCHANGED app

\* generate_caption: except Exception as e: print(...); return None
except_Exception ==
    /\ pc = "except"
    /\ result' = None
    /\ pc' = "return"
    /\ UNCHANGED << image_paths, captions, image, inputs >>
    /\ UNCHANGED app

\* batch_generate_captions appending whatever generate_caption returned
batch_append_raw ==
    /\ pc = "return"
    /\ captions' = Append(captions, result)
    /\ pc' = "for"
    /\ UNCHANGED << image_paths, image, inputs, result >>
    /\ UNCHANGED app

\* batch_generate_captions:
\* captions.append(caption if caption else "Unable to generate caption")
batch_append ==
    /\ pc = "return"
    /\ captions' = Append(captions, IF truthy(result) THEN result
                                    ELSE "Unable to generate caption")
    /\ pc' = "for"
    /\ UNCHANGED << image_paths, image, inputs, result >>
    /\ UNCHANGED app

\* a call of batch_generate_captions on an ImageCaptioner of its own, as the
\* tests make it: the application has done nothing yet
ServiceInit ==
    /\ image_paths \in UNION { [1 .. n -> Paths] : n \in 0 .. MaxLen }
    /\ pc = "for"
    /\ captions = << >>
    /\ image = NoImage
    /\ inputs = NoImage
    /\ result = None
    /\ current_image_path = None
    /\ current_caption = None
    /\ captioner = None
    /\ tts_engine = "pyttsx3"
    /\ high_contrast_mode = FALSE
    /\ generate_btn = DISABLED
    /\ read_btn = DISABLED
    /\ export_btn = DISABLED
    /\ progress = FALSE
    /\ status_label = "Loading model, please wait..."
    /\ caption_text = ""
    /\ messagebox = None
    /\ load_thread = "started"
    /\ generate_threads = EmptyBag
    /\ speak_threads = EmptyBag
    /\ after_queue = << >>
    /\ exported = None
    /\ dialog = None
    /\ handler = None
    /\ mainloop = TRUE

ServiceNext ==
    \/ batch_for
    \/ Image_open
    \/ image_convert
    \/ processor
    \/ model_generate
    \/ processor_decode
    \/ except_Exception
    \/ batch_append

ServiceSpec == ServiceInit /\ [][ServiceNext]_vars

\* what the application's worker takes a call of generate_caption to return
\* is what the statements above return
ServiceAgrees ==
    pc = "return" => result \in ImageCaptioner_generate_caption(img_path)

(* ------------------------------------------- the application's state (§4.1) *)

\* The source keeps no state variable; the state of the specification's table
\* is read off the fields it is defined by.
AppState ==
    IF load_thread = "failed" THEN "Error"
    ELSE IF captioner = None THEN "ModelLoading"
    ELSE IF GenerateInFlight > 0 THEN "Captioning"
    ELSE IF SpeakInFlight > 0 THEN "Speaking"
    ELSE IF current_caption # None THEN "CaptionReady"
    ELSE IF current_image_path # None THEN "ImageLoaded"
    ELSE "Ready"

\* a SelectImage command, from the dialog or by drag and drop
SelectImage == select_image \/ _on_drop

\* a SelectImage whose file was opened and displayed
SelectImageAccepted == (\E p \in Openable : _load_image(p)) /\ SelectImage

\* no caption is stored and nothing that needs one is enabled
CaptionCleared ==
    current_caption = None /\ read_btn = DISABLED /\ export_btn = DISABLED

\* the completion of a GenerateCaption task being applied, with or without a caption
CaptionCompletes == _on_caption_generated /\ truthy(Head(after_queue).arg)
CaptionFails == _on_caption_generated /\ ~truthy(Head(after_queue).arg)

\* a worker thread (load, caption or speech) ending
WorkerEnds ==
    \/ load_thread' # load_thread /\ load_thread' \in {"done", "failed"}
    \/ BagCardinality(generate_threads') < BagCardinality(generate_threads)
    \/ BagCardinality(speak_threads') < BagCardinality(speak_threads)

\* a step taken by a worker thread, not by the UI thread
WorkerStep ==
    \/ load_construct \/ load_after \/ load_except
    \/ \E t \in BagToSet(generate_threads) : generate_call(t) \/ generate_after(t)
    \/ \E t \in BagToSet(speak_threads) :
          speak_say(t) \/ speak_runAndWait(t) \/ speak_except(t)

(* ----------------------------------------------------------------- claims *)

\* C1: a generate_caption issued while no image is selected or while the
\* captioner does not exist yet starts no worker, leaves the image, the
\* caption, the progress bar and every button as they were, and shows only
\* a warning.
C1_GenerateRejected ==
    [][ ((current_image_path = None \/ captioner = None) /\ generate_caption)
          => /\ UNCHANGED << generate_threads, speak_threads, after_queue >>
             /\ UNCHANGED << session, progress, buttons, status_label >>
             /\ messagebox' \in {box("No Image", "generate_caption"),
                                 box("Model Not Ready", "generate_caption")} ]_vars

\* an image was selected while the model was loading and Ctrl+G was refused
C1_Witness ==
    /\ messagebox = box("Model Not Ready", "generate_caption")
    /\ current_image_path \in Openable
    /\ load_thread = "started"

\* C2: a read_aloud issued while no caption is stored starts no speech
\* worker and changes neither the session nor any button.
C2_ReadAloudRejected ==
    [][ (current_caption = None /\ read_aloud)
          => /\ UNCHANGED << speak_threads, generate_threads, after_queue >>
             /\ UNCHANGED << session, buttons, progress, status_label >>
             /\ messagebox' = box("No Caption", "read_aloud") ]_vars

\* Ctrl+R was refused with an image loaded, the model ready and no caption yet
C2_Witness ==
    /\ messagebox = box("No Caption", "read_aloud")
    /\ current_caption = None
    /\ current_image_path \in Openable
    /\ captioner # None

\* C3: at most one GenerateCaption task is in flight (dispatched, its
\* completion not yet applied).
C3_AtMostOneGenerate == GenerateInFlight <= 1

\* C4: at most one Speak task is in flight.
C4_AtMostOneSpeak == SpeakInFlight <= 1

\* the state an accepted SelectImage leaves the application in: ImageLoaded
\* when no load is pending or failed and no task is in flight, the state it
\* was issued in otherwise
StateAfterSelect ==
    IF AppState \in {"Ready", "ImageLoaded", "CaptionReady"} THEN "ImageLoaded"
    ELSE AppState

\* C5 as stated: an accepted SelectImage leaves no caption stored, ReadAloud
\* and Export disabled and the application in ImageLoaded, from whatever
\* state it was issued.
C5_SelectLeavesImageLoaded ==
    [][ ~(CaptionCleared' /\ AppState' = "ImageLoaded") => ~SelectImageAccepted ]_vars

\* C5, amended: an accepted SelectImage leaves an image selected, no caption
\* stored and ReadAloud and Export disabled, from whatever state it was
\* issued; it leaves the application in ImageLoaded when it was issued in
\* Ready, ImageLoaded or CaptionReady and in the state it was issued in
\* otherwise (ModelLoading, Error, Captioning, Speaking); and from then on
\* the only step that stores a caption or enables ReadAloud or Export is a
\* caption completion being applied.
C5_SelectClearsCaption ==
    [][ /\ ~(current_image_path' \in Openable /\ CaptionCleared') => ~SelectImageAccepted
        /\ AppState' # StateAfterSelect => ~SelectImageAccepted
        /\ (CaptionCleared /\ ~CaptionCleared') => _on_caption_generated ]_vars

\* b.jpg was selected while the caption of a.jpg was stored and being
\* spoken: the caption is cleared and the application is still Speaking
C5_Witness ==
    /\ AppState = "Speaking"
    /\ current_image_path = "b.jpg"
    /\ status_label = "Image loaded: b.jpg"
    /\ CaptionCleared
    /\ thread("saying", decode("a.jpg")) \in BagToSet(speak_threads)

\* C6 as stated: every completion that carries a caption stores it, enables
\* ReadAloud and Export and dispatches exactly one Speak task.
C6_AlwaysSpeaks ==
    [][ CaptionCompletes
          => /\ current_caption' = Head(after_queue).arg
             /\ read_btn' = NORMAL /\ export_btn' = NORMAL
             /\ BagCardinality(speak_threads') = BagCardinality(speak_threads) + 1 ]_vars

\* C6, amended: every completion that carries a caption stores it and enables
\* ReadAloud and Export; when the TTS engine exists it then starts exactly
\* one speech worker, after the caption was stored (the worker reads the
\* caption when it runs, which may be before the handler has written its
\* status and returned); when the engine does not exist it starts none and
\* shows the TTS error.
C6_SpeaksWhenEngine ==
    [][ CaptionCompletes
          => /\ current_caption' = Head(after_queue).arg
             /\ read_btn' = NORMAL /\ export_btn' = NORMAL
             /\ IF tts_engine # None
                THEN speak_threads' = speak_threads (+) SetToBag({thread("started", None)})
                ELSE /\ speak_threads' = speak_threads
                     /\ messagebox' = box("TTS Error", "read_aloud") ]_vars

\* a caption was stored and its speech worker started, not yet running
C6_Witness ==
    /\ status_label = "Reading caption aloud..."
    /\ current_caption \in Captions
    /\ read_btn = NORMAL /\ export_btn = NORMAL
    /\ thread("started", None) \in BagToSet(speak_threads)

\* C7 as stated: a failed completion leaves the image set and no caption
\* stored, shows an error, stops the progress bar and re-enables the button.
C7_FailureClearsCaption ==
    [][ CaptionFails
          => /\ current_image_path' # None /\ current_caption' = None
             /\ messagebox' = box("Error", "_on_caption_error")
             /\ progress' = FALSE /\ generate_btn' = NORMAL ]_vars

\* C7, amended: a failed completion leaves the image and the caption as they
\* were (no caption when none was stored, the earlier caption otherwise),
\* shows an error, stops the progress bar and re-enables the button.
C7_FailureKeepsSession ==
    [][ CaptionFails
          => /\ current_image_path' # None /\ UNCHANGED session
             /\ UNCHANGED << read_btn, export_btn, speak_threads >>
             /\ messagebox' = box("Error", "_on_caption_error")
             /\ status_label' = "Caption generation failed"
             /\ progress' = FALSE /\ generate_btn' = NORMAL ]_vars

\* a second caption request for a captioned image has just failed
C7_Witness ==
    /\ messagebox = box("Error", "_on_caption_error")
    /\ current_caption \in Captions
    /\ progress = FALSE /\ generate_btn = NORMAL

\* C8: once the model load has failed, the captioner never exists, no
\* GenerateCaption task is ever in flight, no caption is ever stored and the
\* generate button is never enabled, whatever commands follow.
C8_ErrorIsFinal ==
    load_thread = "failed"
        => /\ AppState = "Error"
           /\ captioner = None
           /\ GenerateInFlight = 0
           /\ current_caption = None
           /\ generate_btn = DISABLED

\* after the failed load an image was selected and Ctrl+G was refused
C8_Witness ==
    /\ load_thread = "failed"
    /\ current_image_path \in Openable
    /\ messagebox = box("Model Not Ready", "generate_caption")

\* C9 as stated: a SelectImage issued in ModelLoading or Error changes
\* neither the image, nor the caption, nor the state.
C9_SelectIgnoredWithoutModel ==
    [][ (AppState \in {"ModelLoading", "Error"} /\ SelectImage)
          => UNCHANGED session /\ AppState' = AppState ]_vars

\* C9, amended: a SelectImage issued in ModelLoading or Error is carried out
\* like any other, except that the generate button stays disabled: the image
\* it leaves selected is a file, an accepted one is displayed, no caption is
\* stored, no task is dispatched and the state stays ModelLoading or Error.
C9_SelectWithoutModel ==
    [][ (AppState \in {"ModelLoading", "Error"} /\ SelectImage)
          => /\ current_image_path' \in Files \/ UNCHANGED current_image_path
             /\ SelectImageAccepted =>
                   status_label' = "Image loaded: " \o name(current_image_path')
             /\ CaptionCleared'
             /\ generate_btn' = DISABLED
             /\ UNCHANGED << generate_threads, speak_threads, after_queue >>
             /\ AppState' = AppState ]_vars

\* an image was selected and displayed while the model was still loading
C9_Witness ==
    /\ AppState = "ModelLoading"
    /\ current_image_path = "a.jpg"
    /\ status_label = "Image loaded: a.jpg"

\* C10: once the caption is stored and the speech worker has finished, the
\* application is in CaptionReady with ReadAloud enabled and a status that
\* no longer reports speech in progress.
C10_SpeechEnds ==
    AppState = "CaptionReady"
        => /\ read_btn = NORMAL
           /\ status_label # "Reading caption aloud..."

\* the list batch_generate_captions has built, with the given placeholder:
\* no exception, one entry per path handled so far, in order; the entry of a
\* path is its decoded caption or the placeholder, and the placeholder when
\* the file cannot be opened; the returned list is as long as the input
BatchEntries(placeholder) ==
    /\ pc # "raised"
    /\ Len(captions) <= Len(image_paths)
    /\ pc = "returned" => Len(captions) = Len(image_paths)
    /\ \A k \in 1 .. Len(captions) :
          /\ captions[k] \in {decode(image_paths[k]), placeholder}
          /\ image_paths[k] \notin Openable => captions[k] = placeholder

\* the entry added for a call: the placeholder when the call returned None or
\* an empty caption, what it returned otherwise
BatchAppends(placeholder) ==
    (pc = "return" /\ pc' = "for")
        => captions' = Append(captions, IF result \in {None, ""} THEN placeholder
                                        ELSE result)

\* C11 as stated: batch_generate_captions never raises and returns one string
\* per path, in order, the entry of a failed or empty caption being exactly
\* "unable to generate caption".
C11_BatchLowercasePlaceholder ==
    /\ []BatchEntries("unable to generate caption")
    /\ [][BatchAppends("unable to generate caption")]_vars

\* C11, amended: the same, the placeholder being "Unable to generate caption".
C11_BatchPlaceholder ==
    /\ []BatchEntries("Unable to generate caption")
    /\ [][BatchAppends("Unable to generate caption")]_vars

\* the batch of a file that cannot be opened and one that can has returned
C11_Witness ==
    /\ pc = "returned"
    /\ image_paths = << "bad.png", "a.jpg" >>
    /\ captions = << "Unable to generate caption", decode("a.jpg") >>

\* C12: a call of generate_caption whose image was opened returns a non-empty
\* caption or None, the value that reports the error; it never returns an
\* empty caption.
C12_CaptionOrError ==
    (pc = "return" /\ image # NoImage) => (result = None \/ result \in Captions)

\* C13: generate_caption never raises; a call whose file cannot be opened
\* returns None, and so does a call in which the conversion, the processor,
\* the model or the decoder raised.
C13_NeverRaises ==
    /\ [](pc # "raised")
    /\ []((pc = "return" /\ image = NoImage) => result = None)
    /\ [][ (pc \in {"open", "convert", "processor", "generate", "decode"}
              /\ pc' \notin {"convert", "processor", "generate", "decode", "return"})
             => pc' = "except" ]_vars
    /\ [][ pc = "except" => (pc' = "return" /\ result' = None) ]_vars

\* the call for a path that does not exist has returned None
C13_Witness ==
    /\ pc = "return"
    /\ img_path = "gone.jpg"
    /\ result = None

\* C16: the image handed to the processor is in RGB mode: it was converted
\* when, and only when, the file's mode is not RGB.
C16_ProcessorGetsRGB ==
    inputs # NoImage
        => /\ inputs.mode = "RGB"
           /\ inputs.converted = (mode(inputs.path) # "RGB")

\* the processor was handed the grayscale file, converted
C16_Witness ==
    inputs = [path |-> "b.jpg", mode |-> "RGB", converted |-> TRUE]

\* C14: export_caption writes a file only when a caption is stored, what it
\* writes is exactly the caption stored when it writes, and, accepted or
\* refused, neither its step before the save dialog nor its step after it
\* changes the image, the caption or a button.
C14_ExportWritesCaption ==
    [][ (export_caption \/ asksaveasfilename)
          => /\ UNCHANGED << session, buttons >>
             /\ exported' # None
                   => (asksaveasfilename /\ truthy(current_caption)
                                         /\ exported' = current_caption)
             /\ ~truthy(current_caption)
                   => /\ exported' = None /\ dialog' = None
                      /\ messagebox' = box("No Caption", "export_caption") ]_vars

\* the caption of a.jpg has just been written to the chosen file
C14_Witness ==
    /\ exported = decode("a.jpg")
    /\ current_caption = decode("a.jpg")
    /\ messagebox = box("Success", "export_caption")

\* C15: toggle_high_contrast can be taken in every state in which the window
\* takes commands, whatever tasks are in flight, and flips the
\* contrast mode; the image, the caption, the captioner, the buttons, the
\* progress bar, the caption shown, the threads, the event queue and the
\* application's state are as before (the status line announces the mode).
C15_ToggleChangesContrastOnly ==
    /\ [](commands => ENABLED toggle_high_contrast)
    /\ [][ toggle_high_contrast
             => /\ high_contrast_mode' = ~high_contrast_mode
                /\ UNCHANGED << session, captioner, buttons, progress, caption_text >>
                /\ UNCHANGED << threads, after_queue >>
                /\ AppState' = AppState ]_vars

\* the mode was switched while a caption task and a speech task were in flight
C15_Witness ==
    /\ high_contrast_mode
    /\ status_label = "High contrast mode enabled"
    /\ GenerateInFlight = 1
    /\ SpeakInFlight = 1

\* C17: while the window is running, a worker thread that ends has posted
\* exactly one callback to the UI thread.
C17_OneCompletionPerTask ==
    [][ (mainloop /\ WorkerEnds) => Len(after_queue') = Len(after_queue) + 1 ]_vars

\* C18: no step of a worker thread changes the image, the caption, the
\* captioner or a button.
C18_WorkersWriteNothing ==
    [][ WorkerStep => UNCHANGED << session, captioner, buttons >> ]_vars

\* every caption task is completed unless the user quits: either completions
\* go on being applied, or from some point on no caption task is in flight,
\* or root.mainloop() has returned
EveryCaptionTaskCompletes ==
    \/ []<><< _on_caption_generated >>_vars
    \/ <>[](GenerateInFlight = 0)
    \/ <>[](~mainloop)

\* C19: the completion of a caption task, when applied, stops the progress
\* bar and enables the generate button; every caption task is completed
\* unless the user quits; and while a caption task is in flight the
\* application, unless the user quits, comes to a state where the progress
\* bar is stopped and the generate button enabled.
C19_CaptioningEnds ==
    /\ [][ _on_caption_generated => (progress' = FALSE /\ generate_btn' = NORMAL) ]_vars
    /\ EveryCaptionTaskCompletes
    /\ (mainloop /\ GenerateInFlight > 0)
          ~> (~mainloop \/ (progress = FALSE /\ generate_btn = NORMAL))

\* the completion of the first of two overlapping caption tasks was applied:
\* the progress bar is stopped and the button enabled, the second in flight
C19_Witness ==
    /\ mainloop
    /\ GenerateInFlight = 1
    /\ progress = FALSE /\ generate_btn = NORMAL
    /\ current_caption \in Captions
    /\ status_label = "Reading caption aloud..."

\* C20: a stored caption is the caption of the selected image.
C20_CaptionOfSelectedImage ==
    current_caption # None => current_caption = decode(current_image_path)

\* C21: a SelectImage whose file cannot be opened (the one that ends in
\* _load_image's error box) leaves the selected image, the caption and every
\* button as they were.
C21_FailedSelectChangesNothing ==
    [][ (messagebox' = box("Error", "_load_image") /\ SelectImage)
          => UNCHANGED << session, buttons >> ]_vars

\* C22: Read Aloud and Export are enabled exactly when a caption is stored,
\* and Generate Caption is enabled only when an image path is stored and the
\* captioner exists.
C22_ButtonsFollowSession ==
    /\ read_btn = NORMAL <=> current_caption # None
    /\ export_btn = NORMAL <=> current_caption # None
    /\ generate_btn = NORMAL => (current_image_path # None /\ captioner # None)

\* a caption was stored and then cleared by selecting another image while the
\* model is loaded: Generate enabled, Read Aloud and Export disabled again
C22_Witness ==
    /\ current_image_path = "b.jpg"
    /\ current_caption = None
    /\ caption_text = ""
    /\ generate_btn = NORMAL
    /\ read_btn = DISABLED
    /\ thread("saying", decode("a.jpg")) \in BagToSet(speak_threads)
    /\ messagebox = None

\* C23: while the window is running, when the model-loaded completion has
\* been applied, a file that opens is selected and no caption task is in
\* flight, Generate Caption is enabled.
C23_GenerateEnabledWhenReady ==
    ( /\ mainloop
      /\ load_thread = "done"
      /\ queued("_on_model_loaded") = {}
      /\ current_image_path \in Openable
      /\ GenerateInFlight = 0 )
        => generate_btn = NORMAL

\* C24: a speech worker never speaks an absent caption (what it speaks is the
\* caption stored when read_aloud started it, which was not absent).
C24_SpeaksStoredCaption ==
    \A t \in BagToSet(speak_threads) : t.pc = "saying" => t.arg # None
====
